---- MODULE Spec2Model ----
(***************************************************************************)
(* Glyph-identity and character-map consistency of FoundryTools: the glyph *)
(* order, the Unicode character map (cmap) and the operations that rename, *)
(* sort and remove glyphs (foundrytools/app/*.py, foundrytools/font.py).   *)
(*                                                                         *)
(* A font is modelled by its glyph order (a sequence of glyph names), its  *)
(* Unicode cmap (a function from the mapped code points to glyph names)    *)
(* and its backing file.  Every action is one call of one operation, from  *)
(* its first statement to its return or raise.                             *)
(***************************************************************************)
EXTENDS Integers, Sequences, FiniteSets, TLC

VARIABLES
    glyphOrder,   \* font.ttfont.getGlyphOrder(): sequence of glyph names
    cmap,         \* the font's Unicode cmap: [mapped code points -> glyph name]
    file,         \* font.file: "path" or "None"
    call,         \* the last call: operation and arguments
    result,       \* what the last call returned, or that it raised
    prims,        \* the external primitives the last call invoked
    sorted,       \* the list sortGlyphNames returned to the last call
    handed,       \* the glyph order the last call handed to reorderGlyphs
    deps,         \* glyph references: <<g, h>> when glyph g is built from or
                  \* substituted by glyph h (composites, substitution rules)
    populated,    \* what the last call handed to Subsetter.populate
    repeated,     \* the last call took no argument and directly followed a
                  \* returned call of the same operation
    preOrder,     \* glyph order when the last call started
    preCmap,      \* cmap when the last call started
    fvar,         \* the font's fvar table: its axes and named instances
    v2s,          \* var2static.run: its arguments, locals and position
    flavor,       \* TTFont.flavor: "None", "woff" or "woff2"
    frames,       \* the restore_flavor blocks that are open, innermost last
    exc,          \* an exception is propagating
    exited,       \* how the last restore_flavor block was left
    observed,     \* the flavors the bodies of the blocks have found
    cff,          \* the CFF table of a PostScript font: its charset and the
                  \* charstrings in the order of their storage
    pn,           \* the last production-name lookup: its input and its result
    ttfonts,      \* the TTFont objects created so far: the flavor of each and
                  \* the table object it stores under the tag of the wrapper
    fontobj,      \* the Font object: its outlines, its _ttfont and its
                  \* cached table wrapper
    fop,          \* the last Font-level operation: its name, the flavor of
                  \* font.ttfont when it began, and how it ended
    style,        \* the style bits: OS/2.fsSelection bold, italic, regular
                  \* and oblique, head.macStyle bold and italic
    assigned,     \* the last assignment to a property of StyleFlags
    disk          \* the cmap stored in the file at font.file, kept where
                  \* the sort reads it (SpecSortOnDisk)

vars == <<glyphOrder, cmap, file, call, result, prims, sorted, handed, deps,
          populated, repeated, preOrder, preCmap, fvar, v2s,
          flavor, frames, exc, exited, observed, cff, pn,
          ttfonts, fontobj, fop, style, assigned, disk>>

\* the state of the glyph operations, of var2static and of restore_flavor
glyphVars == <<glyphOrder, cmap, file, call, result, prims, sorted, handed,
               deps, populated, repeated, preOrder, preCmap, cff, pn>>
v2sVars == <<fvar, v2s>>
flavorVars == <<flavor, frames, exc, exited, observed>>

\* the state of the Font object and of the TTFont objects it has held
objVars == <<ttfonts, fontobj, fop, style, assigned, disk>>

\* the state of StyleFlags, and the content of the backing file
styleVars == <<style, assigned>>

----------------------------------------------------------------------------
(* Bounds of the model *)

\* largest number of glyphs of an initial font
MaxGlyphs == 3

\* the glyph names fonts and callers use
Names == {".notdef", "A", "B", "uni0041", "foo"}

\* the code points a cmap may map: U+0041 and U+0042
CodePoints == {65, 66}

NOTDEF == ".notdef"

\* unicode_from_glyph_name found no value / production name not found
NoCode == -1
NoName == ""

----------------------------------------------------------------------------
(* Sequences and dictionaries *)

Range(s) == {s[i] : i \in DOMAIN s}

IsUnique(s) == \A i, j \in DOMAIN s : s[i] = s[j] => i = j

Min(a, b) == IF a <= b THEN a ELSE b

\* the difference taken the wrong way round
DifferenceReversed(old, new) == Range(new) \ Range(old)

\* set(old_glyph_order).difference(new_glyph_order)
Difference(old, new) == Range(old) \ Range(new)

\* dict(zip(keys, values)): zip stops at the shorter list, a repeated key keeps
\* its last value
DictZip(keys, values) ==
    LET n == Min(Len(keys), Len(values))
        last(k) == CHOOSE i \in 1..n :
                       /\ keys[i] = k
                       /\ \A j \in 1..n : keys[j] = k => j <= i
    IN  [k \in {keys[i] : i \in 1..n} |-> values[last(k)]]

----------------------------------------------------------------------------
(* Glyph names and Unicode values (foundrytools.lib.unicode) *)

HexDigits == <<"0", "1", "2", "3", "4", "5", "6", "7",
               "8", "9", "A", "B", "C", "D", "E", "F">>

\* the uppercase hexadecimal digits of n, without padding
RECURSIVE HexStr(_)
HexStr(n) ==
    IF n < 16 THEN HexDigits[n + 1]
    ELSE HexStr(n \div 16) \o HexDigits[(n % 16) + 1]

\* s padded with zeros on the left to at least w characters
RECURSIVE ZeroPad(_, _)
ZeroPad(s, w) == IF Len(s) >= w THEN s ELSE ZeroPad("0" \o s, w)

\* the last code point of the Basic Multilingual Plane, 0xFFFF
BMPMax == 65535

\* the standard glyph name list: code point -> registered name
AglName(cp) ==
    CASE cp = 32 -> "space"
      [] cp = 65 -> "A"
      [] cp = 66 -> "B"
      [] OTHER   -> NoName

\* the standard glyph name list, reversed: registered name -> code point
AglUnicode(name) ==
    CASE name = "space" -> 32
      [] name = "A"     -> 65
      [] name = "B"     -> 66
      [] OTHER          -> NoCode

\* the uni/u name without zero padding
UniNameUnpadded(cp) ==
    IF cp <= BMPMax THEN "uni" \o HexStr(cp) ELSE "u" \o HexStr(cp)

\* uniXXXX up to 0xFFFF, uXXXXX above
UniName(cp) ==
    IF cp <= BMPMax THEN "uni" \o ZeroPad(HexStr(cp), 4)
    ELSE "u" \o ZeroPad(HexStr(cp), 5)

\* production_name_from_unicode: the registered name, else the uni/u name;
\* no name without a code point
ProductionNameFromUnicode(cp) ==
    IF cp = NoCode THEN NoName
    ELSE IF AglName(cp) # NoName THEN AglName(cp)
    ELSE UniName(cp)

\* the uniXXXX / uXXXXX convention reversed: the code point a name spells
ParseUniName(name) ==
    LET hits == {cp \in CodePoints : UniName(cp) = name}
    IN  IF hits = {} THEN NoCode ELSE CHOOSE cp \in hits : TRUE

\* the code point a glyph name implies by itself: parsed from the name, else
\* looked up in the standard list
NameImplies(name) ==
    IF ParseUniName(name) # NoCode THEN ParseUniName(name)
    ELSE AglUnicode(name)

\* cmap.buildReversed(): glyph name -> the set of code points mapped to it
BuildReversed(cm) ==
    [n \in {cm[c] : c \in DOMAIN cm} |-> {c \in DOMAIN cm : cm[c] = n}]

\* the first code point of a set of the reversed cmap: sets of small
\* integers are iterated in increasing order
FirstOf(codepoints) == CHOOSE c \in codepoints : \A d \in codepoints : c <= d

\* unicode_from_glyph_name(glyph_name, reversed_cmap): the Unicode value of
\* a glyph.  A name in the reversed cmap has the first of its code points;
\* any other name has what the name implies; NoCode is "no value".
UnicodeFromGlyphName(name, reversed_cmap) ==
    IF name \in DOMAIN reversed_cmap /\ reversed_cmap[name] # {}
    THEN FirstOf(reversed_cmap[name])
    ELSE NameImplies(name)

\* get_mapped_and_unmapped_glyphs: the glyph order split by whether a cmap
\* entry targets the name
GetMappedAndUnmappedGlyphs(order, cm) ==
    LET targets == {cm[c] : c \in DOMAIN cm}
    IN  [mapped   |-> {n \in Range(order) : n \in targets},
         unmapped |-> {n \in Range(order) : n \notin targets}]

\* _cmap_from_glyph_names(glyphs_list): the forward maps the names imply.  It
\* is handed glyph names only, so it reads no cmap.  When two names imply one
\* code point either may be kept.
CmapFromGlyphNames(glyphs) ==
    LET cps == {NameImplies(n) : n \in glyphs} \ {NoCode}
    IN  {m \in [cps -> glyphs] : \A c \in cps : NameImplies(m[c]) = c}

\* update_character_map(source_cmap, target_cmap): source entries are merged
\* into target; a code point already in target is a conflict and target wins
UpdateCharacterMap(source_cmap, target_cmap) ==
    LET fresh == DOMAIN source_cmap \ DOMAIN target_cmap
    IN  [updated   |-> [c \in DOMAIN target_cmap \cup fresh |->
                           IF c \in DOMAIN target_cmap THEN target_cmap[c]
                           ELSE source_cmap[c]],
         remapped  |-> {<<c, source_cmap[c]>> : c \in fresh},
         conflicts |-> {<<c, source_cmap[c]>> :
                           c \in DOMAIN source_cmap \cap DOMAIN target_cmap}]

\* rebuild_cmap with remap_all ignored: the target always starts empty
RebuildCmapAlwaysFull(order, cm, remap_all) ==
    {[cmap     |-> UpdateCharacterMap(s, <<>>).updated,
      remapped |-> UpdateCharacterMap(s, <<>>).remapped] :
        s \in CmapFromGlyphNames(Range(order))}

\* rebuild_cmap with remap_all ignored: the target is always the old cmap
RebuildCmapNeverFull(order, cm, remap_all) ==
    {[cmap     |-> UpdateCharacterMap(s, cm).updated,
      remapped |-> UpdateCharacterMap(s, cm).remapped] :
        s \in CmapFromGlyphNames(GetMappedAndUnmappedGlyphs(order, cm).unmapped)}

\* rebuild_cmap that hands the unmapped glyphs to the full rebuild as well
RebuildCmapFromUnmapped(order, cm, remap_all) ==
    {[cmap     |-> UpdateCharacterMap(s, IF remap_all THEN <<>> ELSE cm).updated,
      remapped |-> UpdateCharacterMap(s, IF remap_all THEN <<>> ELSE cm).remapped] :
        s \in CmapFromGlyphNames(GetMappedAndUnmappedGlyphs(order, cm).unmapped)}

\* Font.rebuild_cmap(remap_all): every outcome of a rebuild, as the cmap that
\* setup_character_map installs and the list of remapped pairs
RebuildCmap(order, cm, remap_all) ==
    LET unmapped    == GetMappedAndUnmappedGlyphs(order, cm).unmapped
        target_cmap == IF remap_all THEN <<>> ELSE cm
        sources     == IF remap_all THEN CmapFromGlyphNames(Range(order))
                       ELSE CmapFromGlyphNames(unmapped)
    IN  {[cmap     |-> UpdateCharacterMap(s, target_cmap).updated,
          remapped |-> UpdateCharacterMap(s, target_cmap).remapped] : s \in sources}

\* PostProcessor.rename_glyphs(otf, rename_map) on the tables that refer to
\* glyphs by name: every name the map holds is replaced
RenameDeps(d, rename_map) ==
    LET new(n) == IF n \in DOMAIN rename_map THEN rename_map[n] ELSE n
    IN  {<<new(p[1]), new(p[2])>> : p \in d}

\* PostProcessor.rename_glyphs(otf, rename_map): the glyph order with every
\* name the map holds replaced
PostProcessorRenameGlyphs(order, rename_map) ==
    [i \in DOMAIN order |->
        IF order[i] \in DOMAIN rename_map THEN rename_map[order[i]] ELSE order[i]]

----------------------------------------------------------------------------
(* Calls and results *)

\* the record of a call: the operation and its arguments
Call(op, old, new, order, names, ids, remap_all) ==
    [op |-> op, old |-> old, new |-> new, order |-> order, names |-> names,
     ids |-> ids, remap_all |-> remap_all]

NoCall == Call("none", "", "", <<>>, {}, {}, FALSE)

\* what a call gave back: a boolean, a list of (old, new) pairs, a set of
\* glyph names, a list of (code point, name) pairs; or it raised
Returned(bool, pairs, names, remapped) ==
    [status |-> "returned", bool |-> bool, pairs |-> pairs, names |-> names,
     remapped |-> remapped, error |-> ""]

\* a call raised the operation's error wrapping an exception with a message
RaisedWith(message) ==
    [status |-> "raised", bool |-> FALSE, pairs |-> <<>>, names |-> {},
     remapped |-> {}, error |-> message]

\* a call raised because an external primitive failed
Raised == RaisedWith("primitive failed")

\* no production name was looked up yet
NoLookup == [cp |-> NoCode, name |-> NoName, looked |-> FALSE]

\* the code points callers look up: none, the ends of the ranges of the
\* naming convention, code points with and without a registered name
LookupInputs ==
    {NoCode, 0, 32, 65, 66, 233, 4095, 65535, 65536, 128512, 1114111}

\* production_name = production_name_from_unicode(unicode_string): the font
\* is not an argument of the call and is left alone
ProductionNameLookup(cp) ==
    /\ pn' = [cp |-> cp, name |-> ProductionNameFromUnicode(cp), looked |-> TRUE]
    /\ UNCHANGED <<glyphOrder, cmap, file, call, result, prims, sorted, handed,
                   deps, populated, repeated, preOrder, preCmap, cff,
                   v2sVars, flavorVars, objVars>>

\* a call starts: its arguments and the font as it finds it are recorded
Enter(c) ==
    /\ call' = c
    /\ repeated' = (/\ c.op \in {"set_production_names", "remove_unused_glyphs"}
                    /\ call.op = c.op
                    /\ result.status = "returned")
    /\ preOrder' = glyphOrder
    /\ preCmap' = cmap
    /\ file' = file
    /\ UNCHANGED <<v2sVars, flavorVars, pn, objVars>>
    /\ c.op \notin {"sort_glyphs", "Font.sort_glyphs"} =>
           sorted' = <<>> /\ cff' = cff

\* Subsetter.populate was not called
NoPopulate == [glyphs |-> {}, unicodes |-> {}]

\* a call ends without having touched the font
Untouched(r) ==
    /\ result' = r
    /\ prims' = <<>>
    /\ handed' = <<>>
    /\ populated' = NoPopulate
    /\ deps' = deps
    /\ glyphOrder' = glyphOrder
    /\ cmap' = cmap

----------------------------------------------------------------------------
(* rename_glyph (foundrytools/app/rename_glyph.py) *)

\* "if old_name not in old_glyph_order"
GlyphNotFound(old_glyph_order, old_name) == old_name \notin Range(old_glyph_order)

\* rename_glyph without its collision check
NameCollisionUnchecked(old_glyph_order, new_name) == FALSE

\* "if new_name in old_glyph_order"
NameCollision(old_glyph_order, new_name) == new_name \in Range(old_glyph_order)

\* the two checks with the collision check first
RenameGlyphValueErrorCollisionFirst(old_glyph_order, old_name, new_name) ==
    IF NameCollision(old_glyph_order, new_name)
    THEN "Glyph already exists in the font."
    ELSE IF GlyphNotFound(old_glyph_order, old_name)
    THEN "Glyph not found in the font."
    ELSE ""

\* the two checks with a collision check that lets a glyph take its own name
RenameGlyphValueErrorSelfAllowed(old_glyph_order, old_name, new_name) ==
    IF GlyphNotFound(old_glyph_order, old_name)
    THEN "Glyph not found in the font."
    ELSE IF NameCollision(old_glyph_order, new_name) /\ new_name # old_name
    THEN "Glyph already exists in the font."
    ELSE ""

\* the ValueError the two checks raise, in their order; "" when both pass
RenameGlyphValueError(old_glyph_order, old_name, new_name) ==
    IF GlyphNotFound(old_glyph_order, old_name)
    THEN "Glyph not found in the font."
    ELSE IF NameCollision(old_glyph_order, new_name)
    THEN "Glyph already exists in the font."
    ELSE ""

\* the loop building new_glyph_order
RenameGlyphOrder(old_glyph_order, old_name, new_name) ==
    [i \in DOMAIN old_glyph_order |->
        IF old_glyph_order[i] = old_name THEN new_name ELSE old_glyph_order[i]]

\* the rebuild of the character map raised
RebuildFailed == RaisedWith("character map rebuild failed")

\* an except clause that puts the glyph order back before it raises
OrderAfterFailureRolledBack(old_glyph_order, renamed) == old_glyph_order

\* "except Exception as e: raise ...Error(e) from e": the glyph order the
\* rename primitive installed stays
OrderAfterFailure(old_glyph_order, renamed) == renamed

\* the rename primitive completed and rebuild_character_map raised before
\* it installed a character map; the except clause re-raises
RebuildRaises(old_glyph_order, renamed, rename_map) ==
    /\ glyphOrder' = OrderAfterFailure(old_glyph_order, renamed)
    /\ cmap' = cmap
    /\ prims' = <<"rename_glyphs", "rebuild_character_map">>
    /\ handed' = <<>>
    /\ populated' = NoPopulate
    /\ deps' = RenameDeps(deps, rename_map)
    /\ result' = RebuildFailed

\* rename_glyph.run(font, old_name, new_name); rebuild_fails tells whether
\* rebuild_character_map raises in this call
RenameGlyphCall(old_name, new_name, rebuild_fails) ==
    LET old_glyph_order == glyphOrder
        new_glyph_order == RenameGlyphOrder(old_glyph_order, old_name, new_name)
        rename_map      == DictZip(old_glyph_order, new_glyph_order)
        renamed         == PostProcessorRenameGlyphs(old_glyph_order, rename_map)
    IN  /\ Enter(Call("rename_glyph", old_name, new_name, <<>>, {}, {}, FALSE))
        /\ IF RenameGlyphValueError(old_glyph_order, old_name, new_name) # ""
           THEN Untouched(RaisedWith(
                    RenameGlyphValueError(old_glyph_order, old_name, new_name)))
           ELSE IF rebuild_fails
           THEN RebuildRaises(old_glyph_order, renamed, rename_map)
           ELSE \E r \in RebuildCmap(renamed, cmap, TRUE) :
                    /\ glyphOrder' = renamed
                    /\ cmap' = r.cmap
                    /\ prims' = <<"rename_glyphs", "rebuild_character_map">>
                    /\ handed' = <<>>
                    /\ populated' = NoPopulate
                    /\ deps' = RenameDeps(deps, rename_map)
                    /\ result' = Returned(new_glyph_order # old_glyph_order,
                                          <<>>, {}, {})

\* a call in which the primitives do not fail
RenameGlyph(old_name, new_name) == RenameGlyphCall(old_name, new_name, FALSE)

----------------------------------------------------------------------------
(* rename_glyphs (foundrytools/app/rename_glyphs.py) *)

\* how many positions of a caller's list may differ from the current order
MaxEdits == 1

\* the lists a caller passes as new_glyph_order: of the current length with
\* up to MaxEdits names changed, one name short, or one name long
CandidateOrders(order) ==
    LET n == Len(order)
        same == {s \in [1..n -> Names] :
                    Cardinality({i \in 1..n : s[i] # order[i]}) <= MaxEdits}
    IN  same \cup {SubSeq(order, 1, n - 1)} \cup {Append(order, x) : x \in Names}

\* rename_glyphs without its comparison of the two orders
SameOrderUnchecked(new_glyph_order, old_glyph_order) == FALSE

\* "if new_glyph_order == old_glyph_order: return False"
SameOrder(new_glyph_order, old_glyph_order) == new_glyph_order = old_glyph_order

\* rename_glyphs.run(font, new_glyph_order)
RenameGlyphsCall(new_glyph_order, rebuild_fails) ==
    LET old_glyph_order == glyphOrder
        rename_map      == DictZip(old_glyph_order, new_glyph_order)
        renamed         == PostProcessorRenameGlyphs(old_glyph_order, rename_map)
    IN  /\ Enter(Call("rename_glyphs", "", "", new_glyph_order, {}, {}, FALSE))
        /\ IF SameOrder(new_glyph_order, old_glyph_order)
           THEN Untouched(Returned(FALSE, <<>>, {}, {}))
           ELSE IF rebuild_fails
           THEN RebuildRaises(old_glyph_order, renamed, rename_map)
           ELSE \E r \in RebuildCmap(renamed, cmap, TRUE) :
                    /\ glyphOrder' = renamed
                    /\ cmap' = r.cmap
                    /\ prims' = <<"rename_glyphs", "rebuild_character_map">>
                    /\ handed' = <<>>
                    /\ populated' = NoPopulate
                    /\ deps' = RenameDeps(deps, rename_map)
                    /\ result' = Returned(TRUE, <<>>, {}, {})

\* a call in which the primitives do not fail
RenameGlyphs(new_glyph_order) == RenameGlyphsCall(new_glyph_order, FALSE)

----------------------------------------------------------------------------
(* set_production_names (foundrytools/app/set_production_names.py) *)

\* the skip condition without the test against the glyph order
SkipProductionNameNoCollision(production_name, glyph_name, old_glyph_order) ==
    \/ production_name = NoName
    \/ production_name = glyph_name

\* the condition under which a glyph with a Unicode value keeps its name
SkipProductionName(production_name, glyph_name, old_glyph_order) ==
    \/ production_name = NoName
    \/ production_name = glyph_name
    \/ production_name \in Range(old_glyph_order)

\* one pass of the loop body: the name appended to new_glyph_order for
\* glyph_name, whose Unicode value is code (NoCode: none found)
LoopBody(glyph_name, code, old_glyph_order) ==
    IF code = NoCode THEN glyph_name
    ELSE IF SkipProductionName(ProductionNameFromUnicode(code), glyph_name,
                               old_glyph_order)
         THEN glyph_name
         ELSE ProductionNameFromUnicode(code)

\* renamed_glyphs: the (old, new) pairs of the renamed indices, in order
RenamedGlyphs(old_glyph_order, new_glyph_order) ==
    SelectSeq([i \in DOMAIN old_glyph_order |->
                  <<old_glyph_order[i], new_glyph_order[i]>>],
              LAMBDA pair : pair[1] # pair[2])

\* new_glyph_order as the loop leaves it
ProductionOrder(old_glyph_order, reversed_cmap) ==
    [i \in DOMAIN old_glyph_order |->
        LoopBody(old_glyph_order[i],
                 UnicodeFromGlyphName(old_glyph_order[i], reversed_cmap),
                 old_glyph_order)]

\* set_production_names without its early return
NothingRenamedUnchecked(renamed_glyphs) == FALSE

\* "if not renamed_glyphs: return []"
NothingRenamed(renamed_glyphs) == renamed_glyphs = <<>>

\* set_production_names.run(font)
SetProductionNamesCall(rebuild_fails) ==
    LET old_glyph_order == glyphOrder
        reversed_cmap   == BuildReversed(cmap)
        new_glyph_order == ProductionOrder(old_glyph_order, reversed_cmap)
        renamed_glyphs  == RenamedGlyphs(old_glyph_order, new_glyph_order)
        rename_map      == DictZip(old_glyph_order, new_glyph_order)
        renamed         == PostProcessorRenameGlyphs(old_glyph_order, rename_map)
    IN  /\ Enter(Call("set_production_names", "", "", <<>>, {}, {}, FALSE))
        /\ IF NothingRenamed(renamed_glyphs)
           THEN Untouched(Returned(FALSE, <<>>, {}, {}))
           ELSE IF rebuild_fails
           THEN RebuildRaises(old_glyph_order, renamed, rename_map)
           ELSE \E r \in RebuildCmap(renamed, cmap, TRUE) :
                    /\ glyphOrder' = renamed
                    /\ cmap' = r.cmap
                    /\ prims' = <<"rename_glyphs", "rebuild_character_map">>
                    /\ handed' = <<>>
                    /\ populated' = NoPopulate
                    /\ deps' = RenameDeps(deps, rename_map)
                    /\ result' = Returned(FALSE, renamed_glyphs, {}, {})

\* a call in which the primitives do not fail
SetProductionNames == SetProductionNamesCall(FALSE)

----------------------------------------------------------------------------
(* sort_glyphs (foundrytools/app/sort_glyphs.py) *)

SortKeys == {"unicode", "alphabetical", "cannedDesign"}

\* list.remove(x): the list without the first occurrence of x
RemoveFirst(order, x) ==
    LET k == CHOOSE i \in DOMAIN order :
                 order[i] = x /\ \A j \in DOMAIN order : order[j] = x => i <= j
    IN  SubSeq(order, 1, k - 1) \o SubSeq(order, k + 1, Len(order))

\* sort_glyphs without the .notdef block
PinNotdefSkipped(new_glyph_order) == new_glyph_order

\* ".notdef" is removed from the sorted list and inserted at index 0
PinNotdef(new_glyph_order) ==
    IF NOTDEF \in Range(new_glyph_order)
    THEN <<NOTDEF>> \o RemoveFirst(new_glyph_order, NOTDEF)
    ELSE new_glyph_order

\* ufo.unicodeData.sortGlyphNames(glyphNames=old_glyph_order, ...): the given
\* names in some other order, perm[i] being the old index of the i-th name
SortGlyphNames(old_glyph_order, perm) ==
    [i \in DOMAIN old_glyph_order |-> old_glyph_order[perm[i]]]

\* an extraction that succeeds without a file to read
ExtractUFONeverFails(f) == FALSE

\* extractUFO(font.file, ...) needs a file to read: it fails on None
ExtractUFOFails(f) == f = "None"

\* a font without a CFF table (TrueType outlines)
NoCFF == [present |-> FALSE, charset |-> <<>>, charStrings |-> <<>>]

\* the CFF table of a PostScript font as it is loaded: the charset is the
\* glyph order and the charstrings are stored in that order; cs names the
\* outline, by the glyph it was loaded for
LoadedCFF(order) ==
    [present     |-> TRUE,
     charset     |-> order,
     charStrings |-> [i \in DOMAIN order |-> [name |-> order[i], cs |-> order[i]]]]

\* charstrings.get(k): the outline stored under k, None when there is none
CharStringsGet(charstrings, k) ==
    IF \E i \in DOMAIN charstrings : charstrings[i].name = k
    THEN charstrings[CHOOSE i \in DOMAIN charstrings : charstrings[i].name = k].cs
    ELSE "None"

\* top_dict.charset = new_glyph_order;
\* top_dict.CharStrings.charStrings = {k: charstrings.get(k) for k in new_glyph_order}
RekeyCFF(table, new_glyph_order) ==
    IF ~table.present THEN table
    ELSE [present     |-> TRUE,
          charset     |-> new_glyph_order,
          charStrings |-> [i \in DOMAIN new_glyph_order |->
                              [name |-> new_glyph_order[i],
                               cs   |-> CharStringsGet(table.charStrings,
                                                       new_glyph_order[i])]]]

\* TTFont.reorderGlyphs as far as the CFF table goes: the releases of the
\* library differ, rekeys tells whether this one reorders the CFF storage
ReorderGlyphsCFF(table, new_glyph_order, rekeys) ==
    IF rekeys THEN RekeyCFF(table, new_glyph_order) ELSE table

\* the test for an order that did not change, always negative
SortedAsBeforeUnchecked(old_glyph_order, new_glyph_order) == FALSE

\* "if old_glyph_order == new_glyph_order: return False"
SortedAsBefore(old_glyph_order, new_glyph_order) ==
    old_glyph_order = new_glyph_order

\* sort_glyphs.run(font, sort_by)
SortGlyphs(sort_by) ==
    LET old_glyph_order == glyphOrder
    IN  /\ Enter(Call("sort_glyphs", "", "", <<>>, {}, {}, FALSE))
        /\ IF ExtractUFOFails(file)
           THEN /\ sorted' = <<>>
                /\ cff' = cff
                /\ Untouched(Raised)
           ELSE \E perm \in Permutations(DOMAIN old_glyph_order) :
                LET returned        == SortGlyphNames(old_glyph_order, perm)
                    new_glyph_order == PinNotdef(returned)
                IN  /\ sorted' = returned
                    /\ IF SortedAsBefore(old_glyph_order, new_glyph_order)
                       THEN /\ cff' = cff
                            /\ Untouched(Returned(FALSE, <<>>, {}, {}))
                       ELSE /\ glyphOrder' = new_glyph_order
                            /\ handed' = new_glyph_order
                            /\ populated' = NoPopulate
                            /\ deps' = deps
                            /\ prims' = <<"reorderGlyphs">>
                            /\ cmap' = cmap
                            /\ \E rekeys \in BOOLEAN :
                                   cff' = ReorderGlyphsCFF(cff, new_glyph_order,
                                                           rekeys)
                            /\ result' = Returned(TRUE, <<>>, {}, {})

\* Font.sort_glyphs(sort_by): the same steps, then the block that re-keys
\* the CFF table of a PostScript font
FontSortGlyphs(sort_by) ==
    LET old_glyph_order == glyphOrder
    IN  /\ Enter(Call("Font.sort_glyphs", "", "", <<>>, {}, {}, FALSE))
        /\ IF ExtractUFOFails(file)
           THEN /\ sorted' = <<>>
                /\ cff' = cff
                /\ Untouched(Raised)
           ELSE \E perm \in Permutations(DOMAIN old_glyph_order) :
                LET returned        == SortGlyphNames(old_glyph_order, perm)
                    new_glyph_order == PinNotdef(returned)
                IN  /\ sorted' = returned
                    /\ IF SortedAsBefore(old_glyph_order, new_glyph_order)
                       THEN /\ cff' = cff
                            /\ Untouched(Returned(FALSE, <<>>, {}, {}))
                       ELSE /\ glyphOrder' = new_glyph_order
                            /\ handed' = new_glyph_order
                            /\ populated' = NoPopulate
                            /\ deps' = deps
                            /\ prims' = <<"reorderGlyphs">>
                            /\ cmap' = cmap
                            /\ \E rekeys \in BOOLEAN :
                                   cff' = RekeyCFF(
                                       ReorderGlyphsCFF(cff, new_glyph_order,
                                                        rekeys),
                                       new_glyph_order)
                            /\ result' = Returned(TRUE, <<>>, {}, {})

----------------------------------------------------------------------------
(* remove_glyphs, remove_unused_glyphs (foundrytools/app/remove_*.py) *)

\* how many names, and how many ids, a caller asks to remove in one call
MaxRemove == 1

\* how many glyph references (composites, substitutions) a font holds
MaxClosure == 1

\* how many ids outside 0..MaxGlyphs-1 a caller passes in one call
MaxOutOfRange == 1

\* the (names, ids) a caller passes: up to MaxRemove names and ids of
\* 0..MaxGlyphs-1 together, and up to MaxOutOfRange ids among -1 (negative)
\* and MaxGlyphs (past the end)
RemovalRequests ==
    {r \in (SUBSET Names) \X (SUBSET (-1..MaxGlyphs)) :
        /\ Cardinality(r[1]) + Cardinality(r[2] \cap (0..(MaxGlyphs - 1)))
              <= MaxRemove
        /\ Cardinality(r[2] \ (0..(MaxGlyphs - 1))) <= MaxOutOfRange}

\* remove_glyphs without its test for missing arguments
NothingProvidedUnchecked(glyph_names_to_remove, glyph_ids_to_remove) == FALSE

\* "if not glyph_names_to_remove and not glyph_ids_to_remove: raise"
NothingProvided(glyph_names_to_remove, glyph_ids_to_remove) ==
    glyph_names_to_remove = {} /\ glyph_ids_to_remove = {}

\* the code points of the cmap not collected
GetNoCodepoints(cm) == {}

\* font.t_cmap.get_all_codepoints(): the code points the cmap maps
GetAllCodepoints(cm) == DOMAIN cm

\* the glyphs reachable from the glyphs of S through the references of d
RECURSIVE Closure(_, _)
Closure(S, d) ==
    LET next == S \cup {p[2] : p \in {q \in d : q[1] \in S}}
    IN  IF next = S THEN S ELSE Closure(next, d)

\* Subsetter.populate(glyphs, unicodes); Subsetter.subset(ttfont): the font
\* keeps the requested glyphs, the glyphs of the requested code points, what
\* they reach through glyph references, and .notdef; the cmap keeps the
\* entries of the requested glyphs and code points
SubsetterSubset(order, cm, d, glyphs, unicodes) ==
    LET requested == glyphs \cup {cm[c] : c \in DOMAIN cm \cap unicodes}
        retained  == Closure(requested, d) \cup {NOTDEF}
        kept      == {c \in DOMAIN cm : cm[c] \in glyphs \/ c \in unicodes}
    IN  [order |-> SelectSeq(order, LAMBDA n : n \in retained),
         cmap  |-> [c \in kept |-> cm[c]],
         deps  |-> {p \in d : p[1] \in retained /\ p[2] \in retained}]

\* the conversion of ids left out: only the explicit names are removed
IdsToNamesIgnoringIds(old_glyph_order, glyph_names_to_remove, glyph_ids_to_remove) ==
    glyph_names_to_remove

\* the loop converting glyph ids to names: ids out of range are skipped
IdsToNames(old_glyph_order, glyph_names_to_remove, glyph_ids_to_remove) ==
    glyph_names_to_remove \cup
    {old_glyph_order[i + 1] :
        i \in {g \in glyph_ids_to_remove :
                  ~(g < 0 \/ g >= Len(old_glyph_order))}}

\* "remaining_glyphs = {gn for gn in old_glyph_order if gn not in
\* glyph_names_to_remove}"
RemainingGlyphs(old_glyph_order, to_remove) ==
    {gn \in Range(old_glyph_order) : gn \notin to_remove}

RemoveGlyphs(glyph_names_to_remove, glyph_ids_to_remove) ==
    LET old_glyph_order == glyphOrder
        to_remove == IdsToNames(old_glyph_order, glyph_names_to_remove,
                                glyph_ids_to_remove)
        remaining_glyphs == RemainingGlyphs(old_glyph_order, to_remove)
        sub == SubsetterSubset(old_glyph_order, cmap, deps, remaining_glyphs, {})
    IN  /\ Enter(Call("remove_glyphs", "", "", <<>>, glyph_names_to_remove,
                      glyph_ids_to_remove, FALSE))
        /\ IF NothingProvided(glyph_names_to_remove, glyph_ids_to_remove)
           THEN Untouched(RaisedWith(
                    "No glyph names or glyph IDs provided to remove."))
           ELSE IF to_remove = {}
           THEN Untouched(Returned(FALSE, <<>>, {}, {}))
           ELSE /\ glyphOrder' = sub.order
                /\ cmap' = sub.cmap
                /\ deps' = sub.deps
                /\ populated' = [glyphs |-> remaining_glyphs, unicodes |-> {}]
                /\ prims' = <<"subset">>
                /\ handed' = <<>>
                /\ result' = Returned(FALSE, <<>>,
                                      Difference(old_glyph_order, sub.order), {})

RemoveUnusedGlyphs ==
    LET old_glyph_order == glyphOrder
        unicodes == GetAllCodepoints(cmap)
        sub == SubsetterSubset(old_glyph_order, cmap, deps, {}, unicodes)
    IN  /\ Enter(Call("remove_unused_glyphs", "", "", <<>>, {}, {}, FALSE))
        /\ glyphOrder' = sub.order
        /\ cmap' = sub.cmap
        /\ deps' = sub.deps
        /\ populated' = [glyphs |-> {}, unicodes |-> unicodes]
        /\ prims' = <<"subset">>
        /\ handed' = <<>>
        /\ result' = Returned(FALSE, <<>>,
                              Difference(old_glyph_order, sub.order), {})

----------------------------------------------------------------------------
(* rebuild_cmap (foundrytools/font.py) *)

RebuildCharacterMap(remap_all) ==
    /\ Enter(Call("rebuild_cmap", "", "", <<>>, {}, {}, remap_all))
    /\ \E r \in RebuildCmap(glyphOrder, cmap, remap_all) :
        /\ cmap' = r.cmap
        /\ glyphOrder' = glyphOrder
        /\ prims' = <<"setup_character_map">>
        /\ handed' = <<>>
        /\ populated' = NoPopulate
        /\ deps' = deps
        /\ result' = Returned(FALSE, <<>>, {}, r.remapped)

----------------------------------------------------------------------------
(* var2static (foundrytools/app/var2static.py) *)

\* the largest coordinate a caller passes; axis limits lie strictly inside
\* 0..MaxCoordinate, so that coordinates fall below, on and above them
MaxCoordinate == 3

\* how many instances a caller passes in one call
MaxInstances == 2

AxisTags == {"wght", "wdth"}

\* instance.coordinates: a value for each axis tag the instance names
Instances == UNION {[D -> 0..MaxCoordinate] : D \in SUBSET AxisTags}

\* a font without fvar table: font.is_variable is False
NoFvar == [present |-> FALSE, axes |-> <<>>, instances |-> {}]

\* the frame of var2static.run before it is called
V2SIdle == [pc |-> "idle", instances |-> {}, update_font_names |-> FALSE,
            requested_instances |-> {}, pending |-> {}, processed |-> <<>>,
            result |-> FALSE]

\* FvarTable.get_axes_tags
GetAxesTags(fv) == DOMAIN fv.axes

\* FvarTable.get_axis_limits(axis): (minValue, maxValue)
GetAxisLimits(fv, axis) == fv.axes[axis]

\* check_instance_axes passes: the coordinate keys are the font's axis tags
CheckInstanceAxes(fv, instance) == DOMAIN instance = GetAxesTags(fv)

\* the limits check with the lower limit left out
CheckInstanceCoordinatesUpperOnly(fv, instance) ==
    \A axis \in DOMAIN instance : instance[axis] <= GetAxisLimits(fv, axis)[2]

\* check_instance_coordinates passes: "axis_min <= value <= axis_max" for
\* every coordinate
CheckInstanceCoordinates(fv, instance) ==
    \A axis \in DOMAIN instance :
        /\ GetAxisLimits(fv, axis)[1] <= instance[axis]
        /\ instance[axis] <= GetAxisLimits(fv, axis)[2]

\* the try block of the loop raises BadInstanceError; the limits are looked
\* up only after the axes check has passed
BadInstance(fv, instance) ==
    IF ~CheckInstanceAxes(fv, instance) THEN TRUE
    ELSE ~CheckInstanceCoordinates(fv, instance)

\* run is called: a font that is not variable returns False at once;
\* otherwise the requested instances are the caller's, or the font's named
\* instances when the caller passes none, and update_font_names is dropped
\* when check_update_name_table raises
V2SRun(instances, update_font_names, name_table_ok) ==
    /\ v2s.pc = "idle"
    /\ v2s' = IF ~fvar.present
              THEN [V2SIdle EXCEPT !.pc = "done", !.instances = instances,
                                   !.update_font_names = update_font_names]
              ELSE [pc |-> "loop",
                    instances |-> instances,
                    update_font_names |-> update_font_names /\ name_table_ok,
                    requested_instances |->
                        IF instances # {} THEN instances ELSE fvar.instances,
                    pending |->
                        IF instances # {} THEN instances ELSE fvar.instances,
                    processed |-> <<>>,
                    result |-> FALSE]
    /\ UNCHANGED <<glyphVars, objVars, fvar, flavorVars>>

\* one pass of the loop over requested_instances, a set: any instance not
\* yet visited comes next; it is skipped when a check raises, converted by
\* to_static otherwise, with the font names updated only for a named instance
V2SStep ==
    /\ v2s.pc = "loop"
    /\ \E instance \in v2s.pending :
        /\ v2s' = [v2s EXCEPT
                !.pending = @ \ {instance},
                !.processed = Append(@,
                    IF BadInstance(fvar, instance)
                    THEN [instance |-> instance, outcome |-> "skipped",
                          names |-> FALSE]
                    ELSE [instance |-> instance, outcome |-> "converted",
                          names |-> instance \in fvar.instances
                                    /\ v2s.update_font_names])]
    /\ UNCHANGED <<glyphVars, objVars, fvar, flavorVars>>

\* the loop is over: run returns True
V2SReturn ==
    /\ v2s.pc = "loop"
    /\ v2s.pending = {}
    /\ v2s' = [v2s EXCEPT !.pc = "done", !.result = TRUE]
    /\ UNCHANGED <<glyphVars, objVars, fvar, flavorVars>>

----------------------------------------------------------------------------
(* restore_flavor (foundrytools/utils/misc.py) *)

\* how many restore_flavor blocks are open at once
MaxDepth == 2

\* how many steps the body of a block takes
MaxBodySteps == 2

\* TTFont.flavor; "None" is Python's None
Flavors == {"None", "woff", "woff2"}

\* no restore_flavor block was entered yet
NoBlock ==
    /\ frames = <<>>
    /\ exc = FALSE
    /\ exited = [how |-> "never", entry |-> "None", after |-> "None",
                 propagated |-> FALSE]
    /\ observed = {}

\* a generator that yields without try/finally: an exception thrown in at
\* the yield ends it, and the flavor stays as the body left it
FlavorAfterExitNoFinally(original_flavor, current, raising) ==
    IF raising THEN current ELSE original_flavor

\* "finally: font.flavor = original_flavor", on either way out of the block
FlavorAfterExit(original_flavor, current, raising) == original_flavor

\* the caller sets the flavor of the font outside any block
SetFlavor(f) ==
    /\ frames = <<>>
    /\ ~exc
    /\ flavor' = f
    /\ UNCHANGED <<frames, exc, exited, observed, glyphVars, objVars, v2sVars>>

\* "with restore_flavor(font):" up to the yield: original_flavor is taken
\* and font.flavor is set to None; entry is the flavor when the block began
EnterBlock ==
    /\ ~exc
    /\ Len(frames) < MaxDepth
    /\ frames' = Append(frames, [original_flavor |-> flavor, entry |-> flavor,
                                 steps |-> 0])
    /\ flavor' = "None"
    /\ UNCHANGED <<exc, exited, observed, glyphVars, objVars, v2sVars>>

\* a step of the body of the innermost block: it reads font.flavor, as
\* saving or compiling the font does
BodyStep ==
    /\ ~exc
    /\ frames # <<>>
    /\ frames[Len(frames)].steps < MaxBodySteps
    /\ frames' = [frames EXCEPT ![Len(frames)].steps = @ + 1]
    /\ observed' = observed \cup {flavor}
    /\ UNCHANGED <<flavor, exc, exited, glyphVars, objVars, v2sVars>>

\* the body of the innermost block raises
BodyRaise ==
    /\ ~exc
    /\ frames # <<>>
    /\ exc' = TRUE
    /\ UNCHANGED <<flavor, frames, exited, observed, glyphVars, objVars, v2sVars>>

\* the innermost block is left, by the end of its body or by the exception
\* that propagates: the generator resumes at the yield, the finally clause
\* runs, and an exception goes on to the enclosing code
ExitBlock ==
    /\ frames # <<>>
    /\ flavor' = FlavorAfterExit(frames[Len(frames)].original_flavor, flavor, exc)
    /\ frames' = SubSeq(frames, 1, Len(frames) - 1)
    /\ exc' = exc
    /\ exited' = [how |-> IF exc THEN "exception" ELSE "normal",
                  entry |-> frames[Len(frames)].entry,
                  after |-> flavor',
                  propagated |-> exc']
    /\ UNCHANGED <<observed, glyphVars, objVars, v2sVars>>

\* the caller of the outermost block handles the exception
CatchException ==
    /\ exc
    /\ frames = <<>>
    /\ exc' = FALSE
    /\ UNCHANGED <<flavor, frames, exited, observed, glyphVars, objVars, v2sVars>>

----------------------------------------------------------------------------
(* The Font object, its TTFont and its cached table wrappers               *)
(* (foundrytools/core/font.py, foundrytools/tables/default.py, cff_.py)    *)

\* how many TTFont objects a run creates, the loaded one included
MaxObjects == 4

\* self._cff = None: the wrapper was not loaded
NoWrapper == [loaded |-> FALSE, ttfont |-> 0, table |-> 0]

\* no Font-level operation was called yet
NoFop == [op |-> "none", before |-> "None", status |-> "none"]

\* TTFont(file): a new object, with the flavor of the file it reads and its
\* own table objects; an object is named by its index, and so is its table
NewTTFont(objs, fl) == Append(objs, [flavor |-> fl, table |-> Len(objs) + 1])

\* ttfont.flavor = fl on object k
SetFlavorOf(objs, k, fl) == [objs EXCEPT ![k].flavor = fl]

\* DefaultTbl.__init__: self.ttfont = ttfont; self._table = ttfont.get(tag)
LoadTable(objs, k) == [loaded |-> TRUE, ttfont |-> k, table |-> objs[k].table]

\* Font._get_table: the cached wrapper, loaded from self.ttfont when None
GetTable(font, objs) ==
    IF font.wrapper.loaded THEN font.wrapper ELSE LoadTable(objs, font.ttfont)

\* "with restore_flavor(t):" on object k, from the entry to the yield
EnterRestoreFlavor(objs, k) == SetFlavorOf(objs, k, "None")

\* the end of "with restore_flavor(t):" on object k, which had
\* original_flavor at the entry
ExitRestoreFlavor(objs, k, original_flavor, raising) ==
    SetFlavorOf(objs, k, FlavorAfterExit(original_flavor, objs[k].flavor, raising))

\* a Font-level operation ends: what it was, the flavor font.ttfont had
\* when it began, and whether it returned
Ended(op, status) ==
    fop' = [op |-> op, before |-> ttfonts[fontobj.ttfont].flavor,
            status |-> status]

\* font.cff (or another table property): the wrapper is loaded on demand
AccessTable ==
    /\ fontobj' = [fontobj EXCEPT !.wrapper = GetTable(fontobj, ttfonts)]
    /\ ttfonts' = ttfonts
    /\ Ended("get_table", "returned")
    /\ UNCHANGED <<glyphVars, v2sVars, flavorVars, styleVars, disk>>

\* otf_autohint.run(font); failed tells whether the save or the hinting
\* engine raises
OtfAutohint(failed) ==
    LET old      == fontobj.ttfont
        original == ttfonts[old].flavor
        cleared  == EnterRestoreFlavor(ttfonts, old)
        hinted   == NewTTFont(cleared, "None")
    IN  /\ Len(ttfonts) < MaxObjects
        /\ IF fontobj.kind # "ps"
           THEN /\ UNCHANGED <<ttfonts, fontobj>>
                /\ Ended("otf_autohint", "raised")
           ELSE IF failed
           THEN /\ ttfonts' = ExitRestoreFlavor(cleared, old, original, TRUE)
                /\ fontobj' = fontobj
                /\ Ended("otf_autohint", "raised")
           ELSE /\ ttfonts' = ExitRestoreFlavor(hinted, old, original, FALSE)
                /\ fontobj' = [fontobj EXCEPT !.ttfont = Len(hinted)]
                /\ Ended("otf_autohint", "returned")
        /\ UNCHANGED <<glyphVars, v2sVars, flavorVars, styleVars, disk>>

\* otf_check_outlines.run(font, drop_hinting_data); hinting_data tells
\* whether the font holds hinting data, failed where an exception is
\* raised: "no", "before" or "after" the assignment of font.ttfont
OtfCheckOutlines(drop_hinting_data, hinting_data, failed) ==
    LET old      == fontobj.ttfont
        original == ttfonts[old].flavor
        cleared  == EnterRestoreFlavor(ttfonts, old)
        read     == IF drop_hinting_data THEN fontobj.wrapper
                    ELSE GetTable(fontobj, cleared)
        checked  == NewTTFont(cleared, "None")
        reloads  == hinting_data /\ ~drop_hinting_data
        reloaded == NewTTFont(checked, checked[Len(checked)].flavor)
    IN  /\ Len(ttfonts) + 2 <= MaxObjects
        /\ IF fontobj.kind # "ps"
           THEN /\ UNCHANGED <<ttfonts, fontobj>>
                /\ Ended("otf_check_outlines", "raised")
           ELSE IF failed = "before"
           THEN /\ ttfonts' = ExitRestoreFlavor(cleared, old, original, TRUE)
                /\ fontobj' = [fontobj EXCEPT !.wrapper = read]
                /\ Ended("otf_check_outlines", "raised")
           ELSE IF failed = "after"
           THEN /\ ttfonts' = ExitRestoreFlavor(checked, old, original, TRUE)
                /\ fontobj' = [fontobj EXCEPT !.wrapper = read,
                                              !.ttfont = Len(checked)]
                /\ Ended("otf_check_outlines", "raised")
           ELSE IF reloads
           THEN /\ ttfonts' = ExitRestoreFlavor(reloaded, old, original, FALSE)
                /\ fontobj' = [fontobj EXCEPT
                                   !.ttfont = Len(reloaded),
                                   !.wrapper = LoadTable(reloaded, Len(reloaded))]
                /\ Ended("otf_check_outlines", "returned")
           ELSE /\ ttfonts' = ExitRestoreFlavor(checked, old, original, FALSE)
                /\ fontobj' = [fontobj EXCEPT !.wrapper = read,
                                              !.ttfont = Len(checked)]
                /\ Ended("otf_check_outlines", "returned")
        /\ UNCHANGED <<glyphVars, v2sVars, flavorVars, styleVars, disk>>

\* Font.tt_autohint(); failed tells whether the save or ttfautohint raises
TTAutohint(failed) ==
    LET old     == fontobj.ttfont
        flavor_ == ttfonts[old].flavor
        cleared == SetFlavorOf(ttfonts, old, "None")
        hinted  == NewTTFont(cleared, "None")
    IN  /\ Len(ttfonts) < MaxObjects
        /\ IF fontobj.kind # "tt"
           THEN /\ UNCHANGED <<ttfonts, fontobj>>
                /\ Ended("tt_autohint", "raised")
           ELSE IF failed
           THEN /\ ttfonts' = cleared
                /\ fontobj' = fontobj
                /\ Ended("tt_autohint", "raised")
           ELSE /\ ttfonts' = SetFlavorOf(hinted, Len(hinted), flavor_)
                /\ fontobj' = [fontobj EXCEPT !.ttfont = Len(hinted)]
                /\ Ended("tt_autohint", "returned")
        /\ UNCHANGED <<glyphVars, v2sVars, flavorVars, styleVars, disk>>

\* Font.reload(): the font is saved to a buffer and read back; the wrappers
\* are reset
Reload ==
    LET old      == fontobj.ttfont
        reloaded == NewTTFont(ttfonts, ttfonts[old].flavor)
    IN  /\ Len(ttfonts) < MaxObjects
        /\ ttfonts' = reloaded
        /\ fontobj' = [fontobj EXCEPT !.ttfont = Len(reloaded),
                                      !.wrapper = NoWrapper]
        /\ Ended("reload", "returned")
        /\ UNCHANGED <<glyphVars, v2sVars, flavorVars, styleVars, disk>>

\* CFFTable.autohint() and CFFTable.check_outlines() on the cached wrapper:
\* the wrapper's TTFont is saved, processed and read back as another
\* TTFont, whose CFF table becomes the wrapper's table
WrapperReplaceTable(failed) ==
    LET held     == fontobj.wrapper.ttfont
        original == ttfonts[held].flavor
        cleared  == EnterRestoreFlavor(ttfonts, held)
        temp     == NewTTFont(cleared, "None")
    IN  /\ fontobj.wrapper.loaded
        /\ fontobj.kind = "ps"
        /\ Len(ttfonts) < MaxObjects
        /\ IF failed
           THEN /\ ttfonts' = ExitRestoreFlavor(cleared, held, original, TRUE)
                /\ fontobj' = fontobj
                /\ Ended("CFFTable.autohint", "raised")
           ELSE /\ ttfonts' = ExitRestoreFlavor(temp, held, original, FALSE)
                /\ fontobj' = [fontobj EXCEPT
                                   !.wrapper.table = temp[Len(temp)].table]
                /\ Ended("CFFTable.autohint", "returned")
        /\ UNCHANGED <<glyphVars, v2sVars, flavorVars, styleVars, disk>>

----------------------------------------------------------------------------
(* The backing file of the sort (foundrytools/app/sort_glyphs.py) *)

\* the file of a font whose operations do not read it back
NoDisk == <<>>

\* ufo.unicodeData.unicodeForGlyphName(name): the UFO is extracted from the
\* file, so unicodeData is the cmap stored there; NoCode when the file maps
\* no code point to the name
UnicodeForGlyphName(unicodeData, name) ==
    IF \E cp \in DOMAIN unicodeData : unicodeData[cp] = name
    THEN CHOOSE cp \in DOMAIN unicodeData :
             /\ unicodeData[cp] = name
             /\ \A other \in DOMAIN unicodeData :
                    unicodeData[other] = name => cp <= other
    ELSE NoCode

\* sortGlyphNames(glyphNames, [{"type": "unicode"}]): the names with a code
\* point in unicodeData by ascending code point, then the names without one
\* in the order they were given
SortByUnicode(glyphNames, unicodeData) ==
    LET U(n)    == UnicodeForGlyphName(unicodeData, n)
        with    == SelectSeq(glyphNames, LAMBDA n : U(n) # NoCode)
        without == SelectSeq(glyphNames, LAMBDA n : U(n) = NoCode)
        ranked  == [i \in 1..Len(with) |->
                       CHOOSE n \in Range(with) :
                           Cardinality({m \in Range(with) : U(m) < U(n)}) = i - 1]
    IN  ranked \o without

\* what the sorter reads its code points from: extractUFO(font.file, ...)
\* reads the file, the in-memory cmap is not handed to it
UnicodeDataOf(file_cmap, memory_cmap) == file_cmap

\* sort_glyphs.run(font, "unicode"): the list the sorter returns is the one
\* it derives from the glyph order in memory and the UFO it was given
SortGlyphsUnicode ==
    /\ SortGlyphs("unicode")
    /\ ~ExtractUFOFails(file) =>
           sorted' = SortByUnicode(glyphOrder, UnicodeDataOf(disk, cmap))

\* font.save(font.file): the file holds the font as it is in memory
Save ==
    /\ file # "None"
    /\ disk # cmap
    /\ disk' = cmap
    /\ UNCHANGED <<glyphVars, v2sVars, flavorVars, ttfonts, fontobj, fop,
                   styleVars>>

----------------------------------------------------------------------------
(* StyleFlags (foundrytools/font.py, foundrytools/core/font.py) *)

\* the bits StyleFlags reads and writes: fs_ is OS/2.fsSelection, mac_ is
\* head.macStyle; each accessor of the two tables reads or writes its own
\* bit and no other
StyleBits ==
    [fs_bold : BOOLEAN, mac_bold : BOOLEAN, fs_italic : BOOLEAN,
     mac_italic : BOOLEAN, fs_regular : BOOLEAN, fs_oblique : BOOLEAN]

\* the bits of a regular font
RegularStyle ==
    [fs_bold |-> FALSE, mac_bold |-> FALSE, fs_italic |-> FALSE,
     mac_italic |-> FALSE, fs_regular |-> TRUE, fs_oblique |-> FALSE]

\* no property of StyleFlags was assigned yet
NoAssignment == [attr |-> "None", value |-> FALSE, before |-> RegularStyle]

\* StyleFlags.is_bold (getter)
IsBold(s) == s.fs_bold /\ s.mac_bold

\* StyleFlags.is_italic (getter)
IsItalic(s) == s.fs_italic /\ s.mac_italic

\* StyleFlags.is_oblique (getter)
IsOblique(s) == s.fs_oblique

\* StyleFlags.is_regular (getter)
IsRegular(s) == s.fs_regular

\* StyleFlags._set_font_style(bold, italic, regular): an argument is <<>>
\* for None and <<v>> for the value v
SetFontStyle(s, bold, italic, regular) ==
    LET s1 == IF bold # <<>>
              THEN [s EXCEPT !.fs_bold = bold[1], !.mac_bold = bold[1]]
              ELSE s
        s2 == IF italic # <<>>
              THEN [s1 EXCEPT !.fs_italic = italic[1], !.mac_italic = italic[1]]
              ELSE s1
    IN  IF regular # <<>> THEN [s2 EXCEPT !.fs_regular = regular[1]] ELSE s2

\* StyleFlags.is_bold = value
SetIsBold(s, value) ==
    SetFontStyle(s, <<value>>, <<>>, <<IF ~IsItalic(s) THEN ~value ELSE FALSE>>)

\* StyleFlags.is_italic = value
SetIsItalic(s, value) ==
    SetFontStyle(s, <<>>, <<value>>, <<IF ~IsBold(s) THEN ~value ELSE FALSE>>)

\* StyleFlags.is_oblique = value
SetIsOblique(s, value) == [s EXCEPT !.fs_oblique = value]

\* an is_regular setter that stores the value it is given
SetIsRegularAsGiven(s, value) == [s EXCEPT !.fs_regular = value]

\* StyleFlags.is_regular = value
SetIsRegular(s, value) ==
    IF value
    THEN SetFontStyle(s, <<FALSE>>, <<FALSE>>, <<TRUE>>)
    ELSE [s EXCEPT !.fs_regular = ~(IsBold(s) \/ IsItalic(s))]

\* the property names of StyleFlags that have a setter
StyleAttrs == {"is_bold", "is_italic", "is_oblique", "is_regular"}

\* flags.<attr> = value
AssignStyle(attr, value) ==
    /\ style' = CASE attr = "is_bold"    -> SetIsBold(style, value)
                  [] attr = "is_italic"  -> SetIsItalic(style, value)
                  [] attr = "is_oblique" -> SetIsOblique(style, value)
                  [] attr = "is_regular" -> SetIsRegular(style, value)
    /\ assigned' = [attr |-> attr, value |-> value, before |-> style]
    /\ UNCHANGED <<glyphVars, v2sVars, flavorVars, ttfonts, fontobj, fop, disk>>

\* a Font after construction: one TTFont, no wrapper loaded
FontObjectLoaded(kinds, flavors) ==
    /\ ttfonts \in {<<[flavor |-> fl, table |-> 1]>> : fl \in flavors}
    /\ fontobj \in {[kind |-> k, ttfont |-> 1, wrapper |-> NoWrapper] :
                        k \in kinds}
    /\ fop = NoFop
    /\ style = RegularStyle
    /\ assigned = NoAssignment

----------------------------------------------------------------------------
(* The font after construction, and the calls a caller may make *)

\* the sequences of n distinct names of S
UniqueSeqs(S, n) == {s \in [1..n -> S] : IsUnique(s)}

\* the cmaps whose entries target glyphs of the order other than .notdef
CmapsOver(order) ==
    UNION {[D -> Range(order) \ {NOTDEF}] : D \in SUBSET CodePoints}

\* the glyph references of a font: up to MaxClosure pairs of distinct glyphs
\* of the order other than .notdef
DepsOver(order) ==
    {d \in SUBSET {p \in (Range(order) \ {NOTDEF}) \X (Range(order) \ {NOTDEF}) :
                      p[1] # p[2]} : Cardinality(d) <= MaxClosure}

\* a font as it is loaded: unique glyph names, .notdef first, a cmap that
\* targets its glyphs; f is the backing file
Loaded(f) ==
    /\ glyphOrder \in {<<NOTDEF>> \o s :
                         s \in UNION {UniqueSeqs(Names \ {NOTDEF}, n) :
                                         n \in 1..(MaxGlyphs - 1)}}
    /\ cmap \in CmapsOver(glyphOrder)
    /\ populated = NoPopulate
    /\ repeated = FALSE
    /\ fvar = NoFvar
    /\ v2s = V2SIdle
    /\ NoBlock
    /\ flavor = "None"
    /\ pn = NoLookup
    /\ FontObjectLoaded({"tt"}, {"None"})
    /\ file = f
    /\ call = NoCall
    /\ result = Returned(FALSE, <<>>, {}, {})
    /\ prims = <<>>
    /\ sorted = <<>>
    /\ handed = <<>>
    /\ preOrder = glyphOrder
    /\ preCmap = cmap

\* a font opened from a file path, without glyph references
Init == Loaded("path") /\ deps = {} /\ cff = NoCFF /\ disk = NoDisk

\* a font built from a BytesIO or a TTFont object: font.file is None
InitInMemory == Loaded("None") /\ deps = {} /\ cff = NoCFF /\ disk = NoDisk

\* a font opened from a file path, with or without glyph references
InitReferences ==
    /\ Loaded("path")
    /\ deps \in DepsOver(glyphOrder)
    /\ cff = NoCFF
    /\ disk = NoDisk

Next ==
    \/ \E old_name, new_name \in Names : RenameGlyph(old_name, new_name)
    \/ \E new_glyph_order \in CandidateOrders(glyphOrder) :
           RenameGlyphs(new_glyph_order)
    \/ SetProductionNames
    \/ \E sort_by \in SortKeys : SortGlyphs(sort_by)
    \/ \E request \in RemovalRequests : RemoveGlyphs(request[1], request[2])
    \/ RemoveUnusedGlyphs
    \/ \E remap_all \in BOOLEAN : RebuildCharacterMap(remap_all)

Spec == Init /\ [][Next]_vars

SpecInMemory == InitInMemory /\ [][Next]_vars

\* the calls that remove glyphs, the rebuild that maps the glyphs left, and
\* the renaming of a glyph that is referred to
NextReferences ==
    \/ \E old_name, new_name \in Names : RenameGlyph(old_name, new_name)
    \/ \E request \in RemovalRequests : RemoveGlyphs(request[1], request[2])
    \/ RemoveUnusedGlyphs
    \/ \E remap_all \in BOOLEAN : RebuildCharacterMap(remap_all)

SpecReferences == InitReferences /\ [][NextReferences]_vars

\* the axis limits of a font: minValue <= maxValue, strictly inside
\* 0..MaxCoordinate
Limits ==
    {l \in (1..(MaxCoordinate - 1)) \X (1..(MaxCoordinate - 1)) : l[1] <= l[2]}

\* the axes of the fonts: wght with any limits, alone or with wdth, whose
\* limits are the widest
AxesOfFonts ==
    UNION {{[D \in {"wght"} |-> l],
            [a \in AxisTags |->
                IF a = "wght" THEN l ELSE <<1, MaxCoordinate - 1>>]} :
           l \in Limits}

\* the fvar tables of the fonts: none, or axes with no named instance or
\* with the named instance that lies on the minimum of every axis
Fvars ==
    {NoFvar} \cup
    UNION {{[present |-> TRUE, axes |-> ax, instances |-> ni] :
               ni \in {{}, {[a \in DOMAIN ax |-> ax[a][1]]}}} :
           ax \in AxesOfFonts}

\* a font with glyph order [.notdef, A] and any fvar table
InitVariable ==
    /\ glyphOrder = <<NOTDEF, "A">>
    /\ cmap = <<>>
    /\ deps = {}
    /\ file = "path"
    /\ call = NoCall
    /\ result = Returned(FALSE, <<>>, {}, {})
    /\ prims = <<>>
    /\ sorted = <<>>
    /\ handed = <<>>
    /\ populated = NoPopulate
    /\ repeated = FALSE
    /\ preOrder = glyphOrder
    /\ preCmap = cmap
    /\ fvar \in Fvars
    /\ v2s = V2SIdle
    /\ NoBlock
    /\ flavor = "None"
    /\ cff = NoCFF
    /\ pn = NoLookup
    /\ FontObjectLoaded({"tt"}, {"None"})
    /\ disk = NoDisk

\* one call of var2static.run, step by step
NextVar2Static ==
    \/ \E instances \in {r \in SUBSET Instances : Cardinality(r) <= MaxInstances},
          update_font_names, name_table_ok \in BOOLEAN :
           V2SRun(instances, update_font_names, name_table_ok)
    \/ V2SStep
    \/ V2SReturn

SpecVar2Static == InitVariable /\ [][NextVar2Static]_vars

\* a font with glyph order [.notdef, A] and any flavor
InitFlavor ==
    /\ glyphOrder = <<NOTDEF, "A">>
    /\ cmap = <<>>
    /\ deps = {}
    /\ file = "path"
    /\ call = NoCall
    /\ result = Returned(FALSE, <<>>, {}, {})
    /\ prims = <<>>
    /\ sorted = <<>>
    /\ handed = <<>>
    /\ populated = NoPopulate
    /\ repeated = FALSE
    /\ preOrder = glyphOrder
    /\ preCmap = cmap
    /\ fvar = NoFvar
    /\ v2s = V2SIdle
    /\ NoBlock
    /\ flavor \in Flavors
    /\ cff = NoCFF
    /\ pn = NoLookup
    /\ FontObjectLoaded({"tt"}, {"None"})
    /\ disk = NoDisk

\* code that uses restore_flavor blocks, nested or one after the other
NextFlavor ==
    \/ \E f \in Flavors : SetFlavor(f)
    \/ EnterBlock
    \/ BodyStep
    \/ BodyRaise
    \/ ExitBlock
    \/ CatchException

SpecFlavor == InitFlavor /\ [][NextFlavor]_vars

\* a font opened from a file path, with TrueType or with PostScript outlines
InitSort ==
    /\ Loaded("path")
    /\ deps = {}
    /\ cff \in {NoCFF, LoadedCFF(glyphOrder)}
    /\ disk = NoDisk

\* the two entry points of the sort: sort_glyphs.run and Font.sort_glyphs
NextSort ==
    \/ \E sort_by \in SortKeys : SortGlyphs(sort_by)
    \/ \E sort_by \in SortKeys : FontSortGlyphs(sort_by)

SpecSort == InitSort /\ [][NextSort]_vars

\* no call on this font failed after it had changed the font: a caller
\* discards a font that an operation left half changed
FontUsable == result # RebuildFailed

\* a font opened from a file path: the file holds the cmap that was loaded
InitSortOnDisk == Loaded("path") /\ deps = {} /\ cff = NoCFF /\ disk = cmap

\* the default sort of a font that was remapped in memory, saved or not
NextSortOnDisk ==
    \/ \E remap_all \in BOOLEAN : RebuildCharacterMap(remap_all)
    \/ Save
    \/ SortGlyphsUnicode

SpecSortOnDisk == InitSortOnDisk /\ [][NextSortOnDisk]_vars

\* a font whose style bits are in any state
InitStyleFlags ==
    /\ glyphOrder = <<NOTDEF, "A">>
    /\ cmap = <<>>
    /\ deps = {}
    /\ file = "path"
    /\ call = NoCall
    /\ result = Returned(FALSE, <<>>, {}, {})
    /\ prims = <<>>
    /\ sorted = <<>>
    /\ handed = <<>>
    /\ populated = NoPopulate
    /\ repeated = FALSE
    /\ preOrder = glyphOrder
    /\ preCmap = cmap
    /\ fvar = NoFvar
    /\ v2s = V2SIdle
    /\ NoBlock
    /\ flavor = "None"
    /\ cff = NoCFF
    /\ pn = NoLookup
    /\ ttfonts = <<[flavor |-> "None", table |-> 1]>>
    /\ fontobj = [kind |-> "tt", ttfont |-> 1, wrapper |-> NoWrapper]
    /\ fop = NoFop
    /\ style \in StyleBits
    /\ assigned = [NoAssignment EXCEPT !.before = style]
    /\ disk = NoDisk

\* the assignments to the properties of StyleFlags
NextStyleFlags ==
    \E attr \in StyleAttrs, value \in BOOLEAN : AssignStyle(attr, value)

SpecStyleFlags == InitStyleFlags /\ [][NextStyleFlags]_vars

\* a Font of either outline format and any flavor, right after construction
InitFontObject ==
    /\ glyphOrder = <<NOTDEF, "A">>
    /\ cmap = <<>>
    /\ deps = {}
    /\ file = "path"
    /\ call = NoCall
    /\ result = Returned(FALSE, <<>>, {}, {})
    /\ prims = <<>>
    /\ sorted = <<>>
    /\ handed = <<>>
    /\ populated = NoPopulate
    /\ repeated = FALSE
    /\ preOrder = glyphOrder
    /\ preCmap = cmap
    /\ fvar = NoFvar
    /\ v2s = V2SIdle
    /\ NoBlock
    /\ flavor = "None"
    /\ cff = NoCFF
    /\ pn = NoLookup
    /\ FontObjectLoaded({"ps", "tt"}, Flavors)
    /\ disk = NoDisk

\* the operations that replace font.ttfont or a wrapper's table, and the
\* access to a table wrapper
NextFontObject ==
    \/ AccessTable
    \/ \E failed \in BOOLEAN : OtfAutohint(failed)
    \/ \E drop_hinting_data, hinting_data \in BOOLEAN,
          failed \in {"no", "before", "after"} :
           OtfCheckOutlines(drop_hinting_data, hinting_data, failed)
    \/ \E failed \in BOOLEAN : TTAutohint(failed)
    \/ Reload
    \/ \E failed \in BOOLEAN : WrapperReplaceTable(failed)

SpecFontObject == InitFontObject /\ [][NextFontObject]_vars

\* the renaming operations, with a character-map rebuild that may raise
NextFailure ==
    \/ \E old_name, new_name \in Names, rebuild_fails \in BOOLEAN :
           FontUsable /\ RenameGlyphCall(old_name, new_name, rebuild_fails)
    \/ \E new_glyph_order \in CandidateOrders(glyphOrder),
          rebuild_fails \in BOOLEAN :
           FontUsable /\ RenameGlyphsCall(new_glyph_order, rebuild_fails)
    \/ \E rebuild_fails \in BOOLEAN :
           FontUsable /\ SetProductionNamesCall(rebuild_fails)

SpecFailure == Init /\ [][NextFailure]_vars

\* production names looked up for any code point, on any font, between
\* rebuilds of its character map
NextProductionName ==
    \/ \E cp \in LookupInputs : ProductionNameLookup(cp)
    \/ \E remap_all \in BOOLEAN : RebuildCharacterMap(remap_all)

SpecProductionName == Init /\ [][NextProductionName]_vars

----------------------------------------------------------------------------
(* Properties *)

\* the last call was op and it returned (did not raise)
ReturnedFrom(op) == call.op = op /\ result.status = "returned"

\* the last call was op and it raised
RaisedFrom(op) == call.op = op /\ result.status = "raised"

\* the last call left the font as it found it and invoked no primitive
FontUntouched ==
    /\ glyphOrder = preOrder
    /\ cmap = preCmap
    /\ prims = <<>>

\* C1: after a successful rename_glyph(font, g, n) every code point that was
\* mapped to g maps to n, and every other mapped code point maps to the same
\* glyph as before the call.
C1_TargetedRenameKeepsCmap ==
    ReturnedFrom("rename_glyph") =>
        \A c \in DOMAIN preCmap :
            /\ c \in DOMAIN cmap
            /\ cmap[c] = IF preCmap[c] = call.old THEN call.new ELSE preCmap[c]

\* C2: rename_glyph(font, old, new) with new already in the glyph order
\* raises, invokes neither the rename primitive nor the cmap rebuild, and
\* leaves glyph order and cmap as they were.
C2_CollisionRejected ==
    (call.op = "rename_glyph" /\ call.new \in Range(preOrder)) =>
        /\ result.status = "raised"
        /\ FontUntouched

\* C2 happens: an existing glyph is renamed to the name of another one
C2_Witness ==
    /\ RaisedFrom("rename_glyph")
    /\ call.old \in Range(preOrder)
    /\ call.new \in Range(preOrder)
    /\ call.old # call.new
    /\ DOMAIN preCmap # {}

\* C3: from a glyph order without duplicate names, a successful rename_glyph,
\* rename_glyphs or set_production_names gives a glyph order without
\* duplicate names.
C3_NamesStayUnique ==
    (/\ call.op \in {"rename_glyph", "rename_glyphs", "set_production_names"}
     /\ result.status = "returned"
     /\ IsUnique(preOrder))
        => IsUnique(glyphOrder)

\* C3 for the computed production names alone
C3_ProductionNamesStayUnique ==
    (ReturnedFrom("set_production_names") /\ IsUnique(preOrder))
        => IsUnique(glyphOrder)

\* C4: a set_production_names call that directly follows a returned
\* set_production_names call returns an empty list and changes nothing.
C4_SetProductionNamesIdempotent ==
    [][(ReturnedFrom("set_production_names")
        /\ call'.op = "set_production_names")
          => (/\ result'.status = "returned"
              /\ result'.pairs = <<>>
              /\ glyphOrder' = glyphOrder
              /\ cmap' = cmap)]_vars

\* C5: after every completed call every glyph name a cmap entry targets is a
\* name of the current glyph order.
C5_CmapTargetsInOrder ==
    result.status = "returned" =>
        \A c \in DOMAIN cmap : cmap[c] \in Range(glyphOrder)

\* C5 happens: a call removed or renamed a glyph that cmap entries targeted,
\* and entries remain
C5_Witness ==
    /\ result.status = "returned"
    /\ call.op \in {"remove_glyphs", "rename_glyph"}
    /\ \E c \in DOMAIN preCmap : preCmap[c] \notin Range(glyphOrder)
    /\ DOMAIN cmap # {}

\* C6: after set_production_names every code point that was mapped before
\* the call maps to the glyph at the same glyph index.
C6_BulkRenameKeepsCmap ==
    ReturnedFrom("set_production_names") =>
        \A c \in DOMAIN preCmap :
            /\ c \in DOMAIN cmap
            /\ \E i \in DOMAIN preOrder :
                   preOrder[i] = preCmap[c] /\ glyphOrder[i] = cmap[c]

\* C7: rename_glyphs(font, new_glyph_order) with new_glyph_order equal to the
\* current glyph order returns False, invokes no primitive and leaves glyph
\* order and cmap unchanged.
C7_NoOpRenameGlyphs ==
    (call.op = "rename_glyphs" /\ call.order = preOrder) =>
        /\ result.status = "returned"
        /\ result.bool = FALSE
        /\ FontUntouched

\* C7 happens: rename_glyphs was called with the current order of a font
\* that has mapped glyphs
C7_Witness ==
    /\ call.op = "rename_glyphs"
    /\ call.order = preOrder
    /\ Len(preOrder) >= 2
    /\ DOMAIN preCmap # {}

\* C8: rename_glyphs with a list of another length than the glyph order, or
\* with a repeated name, raises and leaves the font untouched.
C8_InvalidRelabelingRejected ==
    (/\ call.op = "rename_glyphs"
     /\ \/ Len(call.order) # Len(preOrder)
        \/ ~IsUnique(call.order))
        => (result.status = "raised" /\ FontUntouched)

\* the glyph names of an order other than .notdef, in sequence
WithoutNotdef(order) == SelectSeq(order, LAMBDA n : n # NOTDEF)

\* C9: when .notdef is in the glyph order before sort_glyphs, the order
\* handed to the reorder primitive and the glyph order after the call have
\* .notdef at index 0 and the other glyphs in the order the sorter returned.
C9_NotdefPinned ==
    (ReturnedFrom("sort_glyphs") /\ NOTDEF \in Range(preOrder)) =>
        /\ glyphOrder[1] = NOTDEF
        /\ WithoutNotdef(glyphOrder) = WithoutNotdef(sorted)
        /\ "reorderGlyphs" \in Range(prims) =>
               /\ handed[1] = NOTDEF
               /\ handed = glyphOrder

\* C9 happens: the sorter returned .notdef at another index than 0 and the
\* order was installed
C9_Witness ==
    /\ ReturnedFrom("sort_glyphs")
    /\ NOTDEF \in Range(preOrder)
    /\ sorted[1] # NOTDEF
    /\ prims = <<"reorderGlyphs">>
    /\ glyphOrder # preOrder

\* the glyph names no cmap entry targeted before the last call
UnmappedBefore == {n \in Range(preOrder) : \A c \in DOMAIN preCmap : preCmap[c] # n}

\* C10: rebuild_cmap(remap_all=False) keeps every entry of the cmap, adds
\* only entries that target glyphs unmapped before the call, never replaces
\* the glyph of a mapped code point, and returns exactly the added pairs.
C10_IncrementalRebuild ==
    (ReturnedFrom("rebuild_cmap") /\ ~call.remap_all) =>
        /\ \A c \in DOMAIN preCmap : c \in DOMAIN cmap /\ cmap[c] = preCmap[c]
        /\ \A c \in DOMAIN cmap \ DOMAIN preCmap : cmap[c] \in UnmappedBefore
        /\ result.remapped = {<<c, cmap[c]>> : c \in DOMAIN cmap \ DOMAIN preCmap}

\* C10 happens: an incremental rebuild met an unmapped glyph whose name
\* implies a code point mapped to another glyph, and that entry is still
\* the one of the cmap
C10_Witness ==
    /\ ReturnedFrom("rebuild_cmap")
    /\ ~call.remap_all
    /\ \E n \in UnmappedBefore :
           /\ NameImplies(n) \in DOMAIN preCmap
           /\ preCmap[NameImplies(n)] # n
           /\ cmap[NameImplies(n)] = preCmap[NameImplies(n)]

\* the code points the names of a glyph order imply
ImpliedCodePoints(order) == {NameImplies(n) : n \in Range(order)} \ {NoCode}

\* C11: rebuild_cmap(remap_all=True) installs the map computed from the names
\* of all glyphs of the glyph order: a code point is mapped iff some glyph
\* name implies it, it maps to a glyph whose name implies it, and the
\* returned list holds every installed pair; no other entry of the previous
\* cmap survives.
C11_FullRebuild ==
    (ReturnedFrom("rebuild_cmap") /\ call.remap_all) =>
        /\ DOMAIN cmap = ImpliedCodePoints(glyphOrder)
        /\ \A c \in DOMAIN cmap :
               cmap[c] \in Range(glyphOrder) /\ NameImplies(cmap[c]) = c
        /\ result.remapped = {<<c, cmap[c]>> : c \in DOMAIN cmap}

\* C11 happens: a full rebuild discarded an entry no glyph name implies and
\* installed one a glyph name implies
C11_Witness ==
    /\ ReturnedFrom("rebuild_cmap")
    /\ call.remap_all
    /\ \E c \in DOMAIN preCmap : c \notin DOMAIN cmap
    /\ \E c \in DOMAIN cmap : c \notin DOMAIN preCmap

\* the Unicode value set_production_names found for the glyph at index i of
\* the glyph order before the call
CodeBefore(i) == UnicodeFromGlyphName(preOrder[i], BuildReversed(preCmap))

\* the glyph at index i had to keep its name: no Unicode value, no production
\* name, a production name equal to its name or already in the glyph order
KeepsName(i) ==
    \/ CodeBefore(i) = NoCode
    \/ ProductionNameFromUnicode(CodeBefore(i)) = NoName
    \/ ProductionNameFromUnicode(CodeBefore(i)) = preOrder[i]
    \/ ProductionNameFromUnicode(CodeBefore(i)) \in Range(preOrder)

\* C12: set_production_names gives a glyph order of the same length in which
\* index i keeps its name iff the glyph has no Unicode value or its production
\* name is empty, its current name or a name of the pre-call glyph order, and
\* otherwise holds the production name; the returned list is the (old, new)
\* pairs of the renamed indices in glyph-order sequence.
C12_SkipPolicy ==
    ReturnedFrom("set_production_names") =>
        /\ Len(glyphOrder) = Len(preOrder)
        /\ \A i \in DOMAIN preOrder :
               /\ KeepsName(i) <=> glyphOrder[i] = preOrder[i]
               /\ ~KeepsName(i) =>
                      glyphOrder[i] = ProductionNameFromUnicode(CodeBefore(i))
        /\ result.pairs =
               SelectSeq([i \in DOMAIN preOrder |-> <<preOrder[i], glyphOrder[i]>>],
                         LAMBDA pair : pair[1] # pair[2])

\* C12 happens: one glyph was renamed, one was kept because its production
\* name was a name of the glyph order, one because it has no Unicode value
C12_Witness ==
    /\ ReturnedFrom("set_production_names")
    /\ \E i \in DOMAIN preOrder : glyphOrder[i] # preOrder[i]
    /\ \E i \in DOMAIN preOrder :
           /\ CodeBefore(i) # NoCode
           /\ ProductionNameFromUnicode(CodeBefore(i)) # preOrder[i]
           /\ ProductionNameFromUnicode(CodeBefore(i)) \in Range(preOrder)
    /\ \E i \in DOMAIN preOrder : CodeBefore(i) = NoCode

\* C13: when no glyph qualifies for renaming, set_production_names returns
\* an empty list, invokes neither the rename primitive nor the cmap rebuild,
\* and leaves glyph order and cmap unchanged.
C13_NothingToRename ==
    (call.op = "set_production_names"
     /\ \A i \in DOMAIN preOrder : KeepsName(i)) =>
        /\ result.status = "returned"
        /\ result.pairs = <<>>
        /\ FontUntouched

\* C13 happens: set_production_names was called on a font whose glyphs with
\* a Unicode value all keep their names, one of them because its production
\* name is taken, and whose cmap a full rebuild would change
C13_Witness ==
    /\ call.op = "set_production_names"
    /\ \A i \in DOMAIN preOrder : KeepsName(i)
    /\ \E i \in DOMAIN preOrder :
           /\ CodeBefore(i) # NoCode
           /\ ProductionNameFromUnicode(CodeBefore(i)) # preOrder[i]
    /\ \E c \in DOMAIN preCmap : NameImplies(preCmap[c]) # c

\* the ids of the last call that index the glyph order as it was
IdsInRange == {g \in call.ids : 0 <= g /\ g < Len(preOrder)}

\* the removal set of the last remove_glyphs call: the explicit names and the
\* names at the ids in range
RemovalSet == call.names \cup {preOrder[g + 1] : g \in IdsInRange}

\* C14 as stated: remove_glyphs with an empty removal set, whether no names
\* and no ids were given or all ids are out of range, returns the empty set
\* and leaves the font untouched.
C14_EmptyRemovalReturnsEmpty ==
    (call.op = "remove_glyphs" /\ RemovalSet = {}) =>
        /\ result.status = "returned"
        /\ result.names = {}
        /\ FontUntouched

\* C14 amended: remove_glyphs with an empty removal set leaves the font
\* untouched and invokes no primitive; it raises when neither names nor ids
\* were given, and returns the empty set when ids were given and all are out
\* of range.
C14_EmptyRemovalAmended ==
    (call.op = "remove_glyphs" /\ RemovalSet = {}) =>
        /\ FontUntouched
        /\ IF call.names = {} /\ call.ids = {}
           THEN result.status = "raised"
           ELSE result.status = "returned" /\ result.names = {}

\* C14 happens: remove_glyphs was called with an id out of range only, on a
\* font with mapped glyphs
C14_Witness ==
    /\ call.op = "remove_glyphs"
    /\ call.ids # {}
    /\ RemovalSet = {}
    /\ result.status = "returned"
    /\ DOMAIN preCmap # {}

C16_RemovedIsDifference ==
    (ReturnedFrom("remove_glyphs") /\ RemovalSet # {}) =>
        /\ populated.glyphs = {n \in Range(preOrder) : n \notin RemovalSet}
        /\ populated.unicodes = {}
        /\ result.names = {n \in Range(preOrder) : n \notin Range(glyphOrder)}
        /\ result.names \subseteq Range(preOrder)
        /\ result.names \cap Range(glyphOrder) = {}

\* C16 happens: a glyph asked to be removed stayed because a remaining glyph
\* refers to it, so the returned set differs from the requested one
C16_Witness ==
    /\ ReturnedFrom("remove_glyphs")
    /\ \E n \in RemovalSet \cap Range(preOrder) :
           n # NOTDEF /\ n \in Range(glyphOrder)
    /\ result.names # RemovalSet

\* C17: remove_unused_glyphs hands the subsetter every mapped code point and
\* keeps every glyph a code point maps to with its mapping; a
\* remove_unused_glyphs call that directly follows a returned
\* remove_unused_glyphs call returns the empty set and leaves the glyph order
\* unchanged.
C17_RemoveUnusedIdempotent ==
    ReturnedFrom("remove_unused_glyphs") =>
        /\ populated.unicodes = DOMAIN preCmap
        /\ \A c \in DOMAIN preCmap :
               preCmap[c] \in Range(preOrder) =>
                   /\ preCmap[c] \in Range(glyphOrder)
                   /\ c \in DOMAIN cmap /\ cmap[c] = preCmap[c]
        /\ repeated => (result.names = {} /\ glyphOrder = preOrder)

\* C17 happens: remove_unused_glyphs was called twice in a row on a font that
\* keeps an unmapped glyph because a mapped glyph refers to it
C17_Witness ==
    /\ ReturnedFrom("remove_unused_glyphs")
    /\ repeated
    /\ deps # {}
    /\ \E n \in Range(glyphOrder) \ {NOTDEF} :
           \A c \in DOMAIN cmap : cmap[c] # n

\* C18: rename_glyph(font, old, new) with old not in the glyph order raises
\* the not-found error and leaves the font untouched, also when new is
\* already in the glyph order; the collision error is another one.
C18_NotFoundFirst ==
    /\ (call.op = "rename_glyph" /\ call.old \notin Range(preOrder)) =>
           /\ result.status = "raised"
           /\ result.error = "Glyph not found in the font."
           /\ FontUntouched
    /\ (call.op = "rename_glyph" /\ call.old \in Range(preOrder)
                                 /\ call.new \in Range(preOrder)) =>
           /\ result.status = "raised"
           /\ result.error = "Glyph already exists in the font."

\* C18 happens: rename_glyph was called with an absent old name and a new
\* name the font already holds
C18_Witness ==
    /\ RaisedFrom("rename_glyph")
    /\ call.old \notin Range(preOrder)
    /\ call.new \in Range(preOrder)
    /\ DOMAIN preCmap # {}

\* the instance lies on the font's axes and within their limits, bounds
\* included
ValidInstance(instance) ==
    /\ DOMAIN instance = DOMAIN fvar.axes
    /\ \A a \in DOMAIN instance :
           fvar.axes[a][1] <= instance[a] /\ instance[a] <= fvar.axes[a][2]

C20_FlavorRestored ==
    /\ frames # <<>> => flavor = "None"
    /\ observed \subseteq {"None"}
    /\ exited.how # "never" => exited.after = exited.entry
    /\ exited.how = "exception" => exited.propagated

\* C20 happens: a block entered with flavor woff2 was left by an exception
\* after its body had read the flavor
C20_Witness ==
    /\ exited.how = "exception"
    /\ exited.entry = "woff2"
    /\ frames = <<>>
    /\ exc
    /\ observed # {}

\* the CFF table is keyed in the glyph order: the charset is the glyph
\* order, and the i-th charstring is stored under the i-th name and holds
\* an outline
CFFKeyedInGlyphOrder ==
    /\ cff.charset = glyphOrder
    /\ Len(cff.charStrings) = Len(glyphOrder)
    /\ \A i \in DOMAIN glyphOrder :
           /\ cff.charStrings[i].name = glyphOrder[i]
           /\ cff.charStrings[i].cs # "None"

\* C21: after a sort of a PostScript font that returns True, by either
\* entry point, the CFF charset is the new glyph order and the charstrings
\* are stored in the new glyph order, none lost.
C21_CFFRekeyed ==
    (/\ call.op \in {"sort_glyphs", "Font.sort_glyphs"}
     /\ result.status = "returned" /\ result.bool
     /\ cff.present) => CFFKeyedInGlyphOrder

\* C21 restricted to Font.sort_glyphs, which holds the re-keying block
C21_FontMethodRekeys ==
    (/\ ReturnedFrom("Font.sort_glyphs") /\ result.bool
     /\ cff.present) => CFFKeyedInGlyphOrder

C23_SortShortCircuit ==
    [][(call'.op \in {"sort_glyphs", "Font.sort_glyphs"}
        /\ result'.status = "returned") =>
          /\ PinNotdef(sorted') = glyphOrder =>
                 /\ ~result'.bool
                 /\ prims' = <<>>
                 /\ handed' = <<>>
                 /\ glyphOrder' = glyphOrder
                 /\ cff' = cff
          /\ result'.bool =>
                 /\ glyphOrder' # glyphOrder
                 /\ glyphOrder' = PinNotdef(sorted')]_vars

\* C23 happens: on a PostScript font the sorter returned .notdef away from
\* index 0, the pinned order was the current one, and the call returned
\* False
C23_Witness ==
    /\ ReturnedFrom("sort_glyphs")
    /\ ~result.bool
    /\ cff.present
    /\ sorted # preOrder
    /\ PinNotdef(sorted) = preOrder

\* the names the naming convention gives to the code points looked up
ExpectedProductionName(cp) ==
    CASE cp = NoCode  -> ""
      [] cp = 0       -> "uni0000"
      [] cp = 32      -> "space"
      [] cp = 65      -> "A"
      [] cp = 66      -> "B"
      [] cp = 233     -> "uni00E9"
      [] cp = 4095    -> "uni0FFF"
      [] cp = 65535   -> "uniFFFF"
      [] cp = 65536   -> "u10000"
      [] cp = 128512  -> "u1F600"
      [] cp = 1114111 -> "u10FFFF"

OrderRenamedByCall ==
    CASE call.op = "rename_glyph" ->
             RenameGlyphOrder(preOrder, call.old, call.new)
      [] call.op = "rename_glyphs" ->
             PostProcessorRenameGlyphs(preOrder, DictZip(preOrder, call.order))
      [] call.op = "set_production_names" ->
             ProductionOrder(preOrder, BuildReversed(preCmap))
      [] OTHER -> preOrder

C27_FlavorPreserved ==
    fop.op \in {"otf_autohint", "otf_check_outlines", "tt_autohint"} =>
        ttfonts[fontobj.ttfont].flavor = fop.before

\* a loaded wrapper refers to the font's current TTFont and holds the table
\* that TTFont stores
WrapperCoherent ==
    fontobj.wrapper.loaded =>
        /\ fontobj.wrapper.ttfont = fontobj.ttfont
        /\ fontobj.wrapper.table = ttfonts[fontobj.ttfont].table

\* C28: at every point after construction a loaded table wrapper refers to
\* the font's current TTFont and its table is the one stored in that TTFont.
C28_WrapperCoherence == WrapperCoherent

\* is_regular == not (is_bold or is_italic)
StyleCoherent(s) == IsRegular(s) = ~(IsBold(s) \/ IsItalic(s))

\* C29: from any state of the style bits, after an assignment to is_bold,
\* is_italic or is_regular the flags satisfy
\* is_regular == not (is_bold or is_italic); an assignment to is_oblique
\* leaves the three flags as they were; is_regular = False on a font that is
\* neither bold nor italic leaves the regular flag set, and is_regular = True
\* clears bold and italic.
C29_StyleFlagsInvariant ==
    /\ assigned.attr \in {"is_bold", "is_italic", "is_regular"} =>
           StyleCoherent(style)
    /\ assigned.attr = "is_oblique" =>
           /\ IsBold(style) = IsBold(assigned.before)
           /\ IsItalic(style) = IsItalic(assigned.before)
           /\ IsRegular(style) = IsRegular(assigned.before)
           /\ StyleCoherent(style) = StyleCoherent(assigned.before)
    /\ (/\ assigned.attr = "is_regular"
        /\ ~assigned.value
        /\ ~IsBold(assigned.before)
        /\ ~IsItalic(assigned.before)) => IsRegular(style)
    /\ (assigned.attr = "is_regular" /\ assigned.value) =>
           /\ IsRegular(style)
           /\ ~IsBold(style)
           /\ ~IsItalic(style)

\* C29 happens: is_regular = False was assigned on bits that were not
\* coherent (fsSelection bold without macStyle bold, regular clear), and the
\* regular flag is set afterwards
C29_Witness ==
    /\ assigned.attr = "is_regular"
    /\ ~assigned.value
    /\ assigned.before.fs_bold
    /\ ~assigned.before.mac_bold
    /\ ~assigned.before.fs_regular
    /\ IsRegular(style)

\* C30: the order sort_glyphs installs and the value it returns depend on
\* the glyph order and the cmap the font holds in memory alone: they are
\* what the call yields on a font of the same in-memory state whose file
\* holds that state, whatever the file of this font holds.
C30_SortFromMemoryState ==
    ReturnedFrom("sort_glyphs") =>
        LET expected == PinNotdef(SortByUnicode(preOrder, preCmap))
        IN  /\ glyphOrder = expected
            /\ result.bool = (expected # preOrder)

====
